---- MODULE Spec2Model ----
(***************************************************************************)
(* A model of package float8 (zerfoo/float8): the 8-bit float type, its    *)
(* conversion to and from float32 (ToFloat8WithMode, ToFloat32), the four  *)
(* arithmetic operators with their lookup-table dispatch, and the package  *)
(* state that Configure and the Enable/Disable calls change.               *)
(*                                                                         *)
(* A Float8 is its bit pattern, an integer in 0..255.  A float32 is the    *)
(* record of its three bit fields [sign, exp, mant] (1, 8 and 23 bits), so *)
(* that math.Float32bits and math.Float32frombits are field accesses.      *)
(***************************************************************************)
EXTENDS Integers, Sequences, FiniteSets, TLC

VARIABLES
    addTable,               \* arithmetic.go:577  var addTable []Float8
    subTable,               \* arithmetic.go:578
    mulTable,               \* arithmetic.go:579
    divTable,               \* arithmetic.go:580
    conversionTable,        \* arithmetic.go:910  var conversionTable []float32
    DefaultConversionMode,  \* arithmetic.go:630
    DefaultArithmeticMode,  \* arithmetic.go:8
    call                    \* the caller: the call in progress or its return

vars == <<addTable, subTable, mulTable, divTable, conversionTable,
          DefaultConversionMode, DefaultArithmeticMode, call>>

pkg == <<addTable, subTable, mulTable, divTable, conversionTable,
         DefaultConversionMode, DefaultArithmeticMode>>

-----------------------------------------------------------------------------
(* Format constants (types file, const block).                             *)

SignMask == 128
ExponentMask == 120
MantissaMask == 7
MantissaLen == 3
ExponentBias == 7
ExponentMax == 15
ExponentMin == -7
Float32Bias == 127

PositiveZero == 0
NegativeZero == 128
PositiveInfinity == 120
NegativeInfinity == 248
NaN == 127
MaxValue == 126
MinValue == 254
SmallestPositive == 1

ModeDefault == 0
ModeStrict == 1
ModeFast == 2
ConversionModes == {ModeDefault, ModeStrict, ModeFast}

ArithmeticAuto == 0
ArithmeticAlgorithmic == 1
ArithmeticLookup == 2
ArithmeticModes == {ArithmeticAuto, ArithmeticAlgorithmic, ArithmeticLookup}

Float8 == 0..255

\* a nil slice; a slice is held as a record with its length (see the tables)
Nil == [len |-> 0]

-----------------------------------------------------------------------------
(* Bit operations on 8-bit values.                                         *)

Bit(x, i) == (x \div (2 ^ i)) % 2

\* x | y
Or8(x, y) ==
    LET b(i) == IF Bit(x, i) = 1 \/ Bit(y, i) = 1 THEN 2 ^ i ELSE 0
    IN  b(0) + b(1) + b(2) + b(3) + b(4) + b(5) + b(6) + b(7)

\* f & SignMask != 0
SignBit(f) == (f \div SignMask) % 2 = 1

-----------------------------------------------------------------------------
(* Float8 predicates (types file).                                         *)

IsZero(f) == f = PositiveZero \/ f = NegativeZero

IsInf(f) == f = PositiveInfinity \/ f = NegativeInfinity

\* (f&0x7F == 0x7F) && (f&0x07 == 0x07)
IsNaN(f) == f % 128 = 127 /\ f % 8 = 7

\* exp := (f & ExponentMask) >> MantissaLen; exp < 0x0F
IsFinite(f) == (f % 128) \div (2 ^ MantissaLen) < 15

Sign(f) ==
    IF IsNaN(f) THEN 0
    ELSE IF IsZero(f) THEN 0
    ELSE IF SignBit(f) THEN -1
    ELSE 1

\* f ^ SignMask flips bit 7
Neg(f) == IF IsZero(f) THEN f ELSE (f + SignMask) % 256

-----------------------------------------------------------------------------
(* float32 values as bit fields.                                           *)

MantBits == 23
MantOne == 2 ^ MantBits          \* the implicit leading bit, 0x800000

F32(s, e, m) == [sign |-> s, exp |-> e, mant |-> m]

F32PosZero == F32(0, 0, 0)
F32NegZero == F32(1, 0, 0)
F32PosInf == F32(0, 255, 0)
F32NegInf == F32(1, 255, 0)
F32NaN == F32(0, 255, 2 ^ 22)    \* float32(math.NaN()) = 0x7FC00000

F32IsZero(x) == x.exp = 0 /\ x.mant = 0            \* f32 == 0.0
F32IsInf(x) == x.exp = 255 /\ x.mant = 0           \* math.IsInf(f, 0)
F32IsNaN(x) == x.exp = 255 /\ x.mant # 0           \* math.IsNaN(f)
F32Signbit(x) == x.sign = 1                        \* math.Signbit(f)

-----------------------------------------------------------------------------
(* float32 arithmetic (Go's +, -, *, / on float32: IEEE 754 binary32,      *)
(* round to nearest even).  The operators below are applied only to values *)
(* ToFloat32 returns for patterns that are neither zero nor infinite: a    *)
(* NaN, or s * (8+m)/8 * 2^(e-127) with m in 0..7 and e in 120..135.  On   *)
(* these the sum, difference and product are exactly representable, and    *)
(* the quotient is rounded to 24 significant bits.                         *)

\* the 4-bit significand 8..15 of a decoded value: value = Sig4 * 2^(exp-130)
Sig4(x) == (MantOne + x.mant) \div (2 ^ 20)

\* the value in units of 2^-10, signed
Units(x) == (IF x.sign = 1 THEN -1 ELSE 1) * Sig4(x) * 2 ^ (x.exp - 120)

IntAbs(n) == IF n < 0 THEN -n ELSE n

\* the float32 equal to n * 2^k for 0 < n < 2^24 (exact)
F32FromInt(s, n, k) ==
    LET p == CHOOSE q \in 0..23 : 2 ^ q <= n /\ n < 2 ^ (q + 1)
    IN  F32(s, p + k + Float32Bias, n * 2 ^ (MantBits - p) - MantOne)

F32Add(x, y) ==
    IF F32IsNaN(x) \/ F32IsNaN(y) THEN F32NaN
    ELSE LET n == Units(x) + Units(y)
         IN  IF n = 0 THEN F32PosZero
             ELSE F32FromInt(IF n < 0 THEN 1 ELSE 0, IntAbs(n), -10)

F32Sub(x, y) ==
    IF F32IsNaN(x) \/ F32IsNaN(y) THEN F32NaN
    ELSE LET n == Units(x) - Units(y)
         IN  IF n = 0 THEN F32PosZero
             ELSE F32FromInt(IF n < 0 THEN 1 ELSE 0, IntAbs(n), -10)

F32Mul(x, y) ==
    IF F32IsNaN(x) \/ F32IsNaN(y) THEN F32NaN
    ELSE F32FromInt(IF x.sign # y.sign THEN 1 ELSE 0, Sig4(x) * Sig4(y),
                    (x.exp - 130) + (y.exp - 130))

\* n / d rounded to an integer, ties to even
RoundEven(n, d) ==
    LET q == n \div d
        r == n % d
    IN  IF 2 * r > d \/ (2 * r = d /\ q % 2 = 1) THEN q + 1 ELSE q

F32Div(x, y) ==
    IF F32IsNaN(x) \/ F32IsNaN(y) THEN F32NaN
    ELSE LET s == IF x.sign # y.sign THEN 1 ELSE 0
             \* quotient of the significands in [1,2) when e = 0, [1/2,1) else
             e == IF Sig4(x) >= Sig4(y) THEN 0 ELSE -1
             m24 == RoundEven(Sig4(x) * 2 ^ (MantBits - e), Sig4(y))
         IN  F32(s, (x.exp - y.exp) + e + Float32Bias, m24 - MantOne)

\* f32a < f32b on values that are not NaN (a zero of either sign is 0)
F32Less(x, y) ==
    (IF F32IsZero(x) THEN 0 ELSE Units(x)) < (IF F32IsZero(y) THEN 0 ELSE Units(y))

-----------------------------------------------------------------------------
(* Conversion (convert file).                                              *)

\* (Float8, error) of ToFloat8WithMode
Ret(v, e) == [val |-> v, err |-> e]

NoError == "nil"
ErrNaN == "NaN not representable in float8"
ErrOverflowMsg == "overflow: value too large for float8"
ErrUnderflowMsg == "underflow: value too small for float8"
ErrRoundMsg == "overflow after rounding"

\* Float8((sign << 7) | (uint32(exp8) << MantissaLen) | mant8): the low
\* eight bits of the 32-bit word; exp8 may be negative, and then
\* uint32(exp8) = 2^32 + exp8, whose low five bits are exp8 mod 32.
Compose(sign, exp8, mant8) ==
    Or8(Or8(sign * 2 ^ 7, ((exp8 % 32) * 2 ^ MantissaLen) % 256), mant8)

\* Overflow with the mode test lost: an error in every mode
OverflowAlwaysError(sign, mode, msg) == Ret(0, msg)

\* exp8 > ExponentMax: an error in strict mode, else the signed infinity
Overflow(sign, mode, msg) ==
    IF mode = ModeStrict THEN Ret(0, msg)
    ELSE IF sign # 0 THEN Ret(NegativeInfinity, NoError)
    ELSE Ret(PositiveInfinity, NoError)

\* Underflow with the sign test lost: +0 for either sign
UnderflowUnsigned(sign, mode) ==
    IF mode = ModeStrict THEN Ret(0, ErrUnderflowMsg)
    ELSE Ret(PositiveZero, NoError)

\* exp8 < ExponentMin: an error in strict mode, else the signed zero
Underflow(sign, mode) ==
    IF mode = ModeStrict THEN Ret(0, ErrUnderflowMsg)
    ELSE IF sign # 0 THEN Ret(NegativeZero, NoError)
    ELSE Ret(PositiveZero, NoError)

ToFloat8WithMode(f32, mode) ==
    IF F32IsZero(f32) THEN
        IF F32Signbit(f32) THEN Ret(NegativeZero, NoError)
        ELSE Ret(PositiveZero, NoError)
    ELSE IF F32IsInf(f32) THEN
        IF f32.sign = 0 THEN Ret(PositiveInfinity, NoError)
        ELSE Ret(NegativeInfinity, NoError)
    ELSE IF F32IsNaN(f32) THEN
        IF mode = ModeStrict THEN Ret(0, ErrNaN) ELSE Ret(NaN, NoError)
    ELSE
        LET sign == f32.sign
            exp == f32.exp
            mant == f32.mant
            exp8 == exp - Float32Bias + ExponentBias
            mant8 == mant \div 2 ^ (MantBits - MantissaLen)
            roundUp == (mant \div 2 ^ (MantBits - MantissaLen - 1)) % 2 # 0
        IN  IF exp8 > ExponentMax THEN Overflow(sign, mode, ErrOverflowMsg)
            ELSE IF exp8 < ExponentMin THEN Underflow(sign, mode)
            ELSE IF roundUp THEN
                IF mant8 + 1 >= 2 ^ MantissaLen THEN
                    IF exp8 + 1 > ExponentMax
                    THEN Overflow(sign, mode, ErrRoundMsg)
                    ELSE Ret(Compose(sign, exp8 + 1, 0), NoError)
                ELSE Ret(Compose(sign, exp8, mant8 + 1), NoError)
            ELSE Ret(Compose(sign, exp8, mant8), NoError)

\* toFloat32Algorithmic with the float8 bias not subtracted from the exponent
toFloat32AlgorithmicNoRebias(f) ==
    IF IsZero(f) THEN
        IF f = NegativeZero THEN F32NegZero ELSE F32PosZero
    ELSE IF IsNaN(f) THEN F32NaN
    ELSE IF f = PositiveInfinity THEN F32PosInf
    ELSE IF f = NegativeInfinity THEN F32NegInf
    ELSE F32(f \div 2 ^ 7, ((f \div 2 ^ MantissaLen) % 16) + Float32Bias,
             (f % (MantissaMask + 1)) * 2 ^ (MantBits - MantissaLen))

toFloat32Algorithmic(f) ==
    IF IsZero(f) THEN
        IF f = NegativeZero THEN F32NegZero ELSE F32PosZero
    ELSE IF IsNaN(f) THEN F32NaN
    ELSE IF f = PositiveInfinity THEN F32PosInf
    ELSE IF f = NegativeInfinity THEN F32NegInf
    ELSE
        LET sign == f \div 2 ^ 7
            exp8 == (f \div 2 ^ MantissaLen) % 16
            mant8 == f % (MantissaMask + 1)
            exp32 == exp8 - ExponentBias + Float32Bias
            mant32 == mant8 * 2 ^ (MantBits - MantissaLen)
        IN  F32(sign, exp32, mant32)

\* The package state the conversions and the algorithmic operators read:
\* DefaultConversionMode and conversionTable.
Env == [mode |-> DefaultConversionMode, conv |-> conversionTable]

\* conversionTable[f] of a table initConversionTable built: it stored
\* Float8(i).toFloat32Algorithmic() at each index i
ConversionEntry(table, f) == toFloat32Algorithmic(f)

ConversionTableLen == 256

\* make([]float32, 256) and the fill loop of initConversionTable
BuiltConversionTable == [len |-> ConversionTableLen]

\* every value Env can take: conversionTable is nil or built
Envs == [mode : ConversionModes, conv : {Nil, BuiltConversionTable}]

\* Float8.ToFloat32 with conversionTable = env.conv
ToFloat32(env, f) ==
    IF env.conv # Nil THEN ConversionEntry(env.conv, f)
    ELSE toFloat32Algorithmic(f)

\* ToFloat8 with DefaultConversionMode = env.mode; the error is dropped
ToFloat8(env, f32) == ToFloat8WithMode(f32, env.mode).val


-----------------------------------------------------------------------------
(* Algorithmic operators (arithmetic file).  env is the package state they *)
(* read through ToFloat32 and ToFloat8.                                    *)

\* addAlgorithmic with the two zero tests in the other order
addAlgorithmicZeroSwapped(env, a, b) ==
    IF IsZero(b) THEN a
    ELSE IF IsZero(a) THEN b
    ELSE IF IsInf(a) \/ IsInf(b) THEN
        IF a = PositiveInfinity /\ b = NegativeInfinity THEN PositiveZero
        ELSE IF a = NegativeInfinity /\ b = PositiveInfinity THEN PositiveZero
        ELSE IF IsInf(a) THEN a
        ELSE b
    ELSE ToFloat8(env, F32Add(ToFloat32(env, a), ToFloat32(env, b)))

\* addAlgorithmic with opposite infinities resolved to NaN
addAlgorithmicInfNaN(env, a, b) ==
    IF IsZero(a) THEN b
    ELSE IF IsZero(b) THEN a
    ELSE IF IsInf(a) \/ IsInf(b) THEN
        IF a = PositiveInfinity /\ b = NegativeInfinity THEN NaN
        ELSE IF a = NegativeInfinity /\ b = PositiveInfinity THEN NaN
        ELSE IF IsInf(a) THEN a
        ELSE b
    ELSE ToFloat8(env, F32Add(ToFloat32(env, a), ToFloat32(env, b)))

\* addAlgorithmic whose finite path subtracts
addAlgorithmicSubtracts(env, a, b) ==
    IF IsZero(a) THEN b
    ELSE IF IsZero(b) THEN a
    ELSE IF IsInf(a) \/ IsInf(b) THEN
        IF a = PositiveInfinity /\ b = NegativeInfinity THEN PositiveZero
        ELSE IF a = NegativeInfinity /\ b = PositiveInfinity THEN PositiveZero
        ELSE IF IsInf(a) THEN a
        ELSE b
    ELSE ToFloat8(env, F32Sub(ToFloat32(env, a), ToFloat32(env, b)))

addAlgorithmic(env, a, b) ==
    IF IsZero(a) THEN b
    ELSE IF IsZero(b) THEN a
    ELSE IF IsInf(a) \/ IsInf(b) THEN
        IF a = PositiveInfinity /\ b = NegativeInfinity THEN PositiveZero
        ELSE IF a = NegativeInfinity /\ b = PositiveInfinity THEN PositiveZero
        ELSE IF IsInf(a) THEN a
        ELSE b
    ELSE ToFloat8(env, F32Add(ToFloat32(env, a), ToFloat32(env, b)))

\* subAlgorithmic returning b itself for 0 - b
subAlgorithmicNoNeg(env, a, b) ==
    IF IsZero(b) THEN a
    ELSE IF IsZero(a) THEN b
    ELSE IF IsInf(a) \/ IsInf(b) THEN
        IF a = b /\ IsInf(a) THEN PositiveZero
        ELSE IF IsInf(a) THEN a
        ELSE Neg(b)
    ELSE ToFloat8(env, F32Sub(ToFloat32(env, a), ToFloat32(env, b)))

subAlgorithmic(env, a, b) ==
    IF IsZero(b) THEN a
    ELSE IF IsZero(a) THEN Neg(b)
    ELSE IF IsInf(a) \/ IsInf(b) THEN
        IF a = b /\ IsInf(a) THEN PositiveZero
        ELSE IF IsInf(a) THEN a
        ELSE Neg(b)
    ELSE ToFloat8(env, F32Sub(ToFloat32(env, a), ToFloat32(env, b)))

\* mulAlgorithmic with the sign of a zero or infinite product taken from a alone
mulAlgorithmicSignOfA(env, a, b) ==
    IF IsNaN(a) \/ IsNaN(b) THEN NaN
    ELSE IF (IsInf(a) /\ IsZero(b)) \/ (IsZero(a) /\ IsInf(b)) THEN NaN
    ELSE IF IsZero(a) \/ IsZero(b) THEN
        IF SignBit(a) THEN NegativeZero ELSE PositiveZero
    ELSE IF IsInf(a) \/ IsInf(b) THEN
        IF SignBit(a) THEN NegativeInfinity ELSE PositiveInfinity
    ELSE ToFloat8(env, F32Mul(ToFloat32(env, a), ToFloat32(env, b)))

\* mulAlgorithmic with zero times infinity resolved to a signed zero
mulAlgorithmicZeroInf(env, a, b) ==
    IF IsNaN(a) \/ IsNaN(b) THEN NaN
    ELSE
        LET signA == IF SignBit(a) THEN -1 ELSE 1
            signB == IF SignBit(b) THEN -1 ELSE 1
        IN  IF IsZero(a) \/ IsZero(b) THEN
                IF signA * signB < 0 THEN NegativeZero ELSE PositiveZero
            ELSE IF IsInf(a) \/ IsInf(b) THEN
                IF signA * signB > 0 THEN PositiveInfinity
                ELSE NegativeInfinity
            ELSE ToFloat8(env, F32Mul(ToFloat32(env, a), ToFloat32(env, b)))

mulAlgorithmic(env, a, b) ==
    IF IsNaN(a) \/ IsNaN(b) THEN NaN
    ELSE
        LET signA == IF SignBit(a) THEN -1 ELSE 1
            signB == IF SignBit(b) THEN -1 ELSE 1
        IN  IF (IsInf(a) /\ IsZero(b)) \/ (IsZero(a) /\ IsInf(b)) THEN NaN
            ELSE IF IsZero(a) \/ IsZero(b) THEN
                IF signA * signB < 0 THEN NegativeZero ELSE PositiveZero
            ELSE IF IsInf(a) \/ IsInf(b) THEN
                IF signA * signB > 0 THEN PositiveInfinity
                ELSE NegativeInfinity
            ELSE ToFloat8(env, F32Mul(ToFloat32(env, a), ToFloat32(env, b)))

\* divAlgorithmic with division by a zero ignoring the sign of the zero
divAlgorithmicZeroUnsigned(env, a, b) ==
    IF IsNaN(a) \/ IsNaN(b) THEN NaN
    ELSE
        LET signA == SignBit(a)
            signB == SignBit(b)
        IN  IF IsZero(b) THEN
                IF IsZero(a) THEN NaN
                ELSE IF signA THEN NegativeInfinity
                ELSE PositiveInfinity
            ELSE IF IsZero(a) THEN
                IF signA # signB THEN NegativeZero ELSE PositiveZero
            ELSE IF IsInf(a) THEN
                IF IsInf(b) THEN NaN
                ELSE IF signA = signB THEN PositiveInfinity
                ELSE NegativeInfinity
            ELSE IF IsInf(b) THEN
                IF signA = signB THEN PositiveZero ELSE NegativeZero
            ELSE
                LET result == F32Div(ToFloat32(env, a), ToFloat32(env, b))
                IN  IF F32IsInf(result) THEN
                        IF (Sign(a) > 0) = (Sign(b) > 0) THEN PositiveInfinity
                        ELSE NegativeInfinity
                    ELSE ToFloat8(env, result)

divAlgorithmic(env, a, b) ==
    IF IsNaN(a) \/ IsNaN(b) THEN NaN
    ELSE
        LET signA == SignBit(a)
            signB == SignBit(b)
        IN  IF IsZero(b) THEN
                IF IsZero(a) THEN NaN
                ELSE IF signA = signB THEN PositiveInfinity
                ELSE NegativeInfinity
            ELSE IF IsZero(a) THEN
                IF signA # signB THEN NegativeZero ELSE PositiveZero
            ELSE IF IsInf(a) THEN
                IF IsInf(b) THEN NaN
                ELSE IF signA = signB THEN PositiveInfinity
                ELSE NegativeInfinity
            ELSE IF IsInf(b) THEN
                IF signA = signB THEN PositiveZero ELSE NegativeZero
            ELSE
                LET result == F32Div(ToFloat32(env, a), ToFloat32(env, b))
                IN  IF F32IsInf(result) THEN
                        IF (Sign(a) > 0) = (Sign(b) > 0) THEN PositiveInfinity
                        ELSE NegativeInfinity
                    ELSE ToFloat8(env, result)

-----------------------------------------------------------------------------
(* Comparison operations (arithmetic file).  Less decodes its operands     *)
(* with ToFloat32, so it takes the package state env as the arithmetic     *)
(* operators do.                                                           *)

\* Equal as plain equality of patterns once NaN is excluded
EqualBits(a, b) ==
    IF IsNaN(a) \/ IsNaN(b) THEN FALSE
    ELSE a = b

Equal(a, b) ==
    IF IsNaN(a) \/ IsNaN(b) THEN FALSE
    ELSE IF IsZero(a) /\ IsZero(b) THEN TRUE
    ELSE LET aInf == IsInf(a)
             bInf == IsInf(b)
         IN  IF aInf \/ bInf THEN
                 IF aInf /\ bInf THEN a = b ELSE FALSE
             ELSE a = b

\* Less without the NaN test
LessNoNaN(env, a, b) ==
    IF IsZero(a) /\ IsZero(b) THEN FALSE
    ELSE LET aInf == IsInf(a)
             bInf == IsInf(b)
         IN  IF aInf /\ bInf THEN a = NegativeInfinity /\ b = PositiveInfinity
             ELSE IF aInf THEN a = NegativeInfinity
             ELSE IF bInf THEN b = PositiveInfinity
             ELSE IF IsNaN(a) \/ IsNaN(b) THEN FALSE
             ELSE F32Less(ToFloat32(env, a), ToFloat32(env, b))

\* Less comparing the patterns as unsigned integers
LessBits(env, a, b) ==
    IF IsNaN(a) \/ IsNaN(b) THEN FALSE
    ELSE IF IsZero(a) /\ IsZero(b) THEN FALSE
    ELSE a < b

Less(env, a, b) ==
    IF IsNaN(a) \/ IsNaN(b) THEN FALSE
    ELSE IF IsZero(a) /\ IsZero(b) THEN FALSE
    ELSE LET aInf == IsInf(a)
             bInf == IsInf(b)
         IN  IF aInf /\ bInf THEN a = NegativeInfinity /\ b = PositiveInfinity
             ELSE IF aInf THEN a = NegativeInfinity
             ELSE IF bInf THEN b = PositiveInfinity
             ELSE F32Less(ToFloat32(env, a), ToFloat32(env, b))

Greater(env, a, b) == Less(env, b, a)

\* Min returning its first operand whenever neither operand is infinite
MinFirst(env, a, b) ==
    IF IsNaN(a) \/ IsNaN(b) THEN NaN
    ELSE IF a = NegativeInfinity \/ b = NegativeInfinity THEN NegativeInfinity
    ELSE IF a = PositiveInfinity THEN b
    ELSE IF b = PositiveInfinity THEN a
    ELSE a

Min(env, a, b) ==
    IF IsNaN(a) \/ IsNaN(b) THEN NaN
    ELSE IF a = NegativeInfinity \/ b = NegativeInfinity THEN NegativeInfinity
    ELSE IF a = PositiveInfinity THEN b
    ELSE IF b = PositiveInfinity THEN a
    ELSE IF Less(env, a, b) THEN a
    ELSE b

Max(env, a, b) ==
    IF IsNaN(a) \/ IsNaN(b) THEN NaN
    ELSE IF a = PositiveInfinity \/ b = PositiveInfinity THEN PositiveInfinity
    ELSE IF a = NegativeInfinity THEN b
    ELSE IF b = NegativeInfinity THEN a
    ELSE IF Greater(env, a, b) THEN a
    ELSE b

-----------------------------------------------------------------------------
(* Lookup tables.  initArithmeticTables fills entry a<<8|b of each table   *)
(* with the algorithmic result for (a, b), computed with the package state *)
(* of that moment.  A table is held as its length and, when it is not nil, *)
(* the Env its entries were computed under; TableEntry gives entry idx.    *)
(* The conversion table is held the same way; its entries depend on        *)
(* nothing but the index.                                                  *)

TableLen == 65536


Ops == {"add", "sub", "mul", "div"}

Algorithmic(op, env, a, b) ==
    CASE op = "add" -> addAlgorithmic(env, a, b)
      [] op = "sub" -> subAlgorithmic(env, a, b)
      [] op = "mul" -> mulAlgorithmic(env, a, b)
      [] op = "div" -> divAlgorithmic(env, a, b)

\* make([]Float8, 65536) and the fill loop, under env
FilledTable(env) == [len |-> TableLen, env |-> env]

\* uint16(a)<<8 | uint16(b)
Index(a, b) == a * 256 + b

\* table[idx] of the table of operator op
TableEntry(table, op, idx) == Algorithmic(op, table.env, idx \div 256, idx % 256)

TableOf(op) ==
    CASE op = "add" -> addTable
      [] op = "sub" -> subTable
      [] op = "mul" -> mulTable
      [] op = "div" -> divTable

\* the dispatch with ArithmeticLookup treated as ArithmeticAlgorithmic
OpWithModeAutoOnly(op, a, b, mode) ==
    IF mode = ArithmeticAuto /\ TableOf(op) # Nil
    THEN TableEntry(TableOf(op), op, Index(a, b))
    ELSE Algorithmic(op, Env, a, b)

\* AddWithMode, SubWithMode, MulWithMode, DivWithMode
OpWithMode(op, a, b, mode) ==
    IF (mode = ArithmeticAuto \/ mode = ArithmeticLookup) /\ TableOf(op) # Nil
    THEN TableEntry(TableOf(op), op, Index(a, b))
    ELSE Algorithmic(op, Env, a, b)

AddWithMode(a, b, mode) == OpWithMode("add", a, b, mode)
SubWithMode(a, b, mode) == OpWithMode("sub", a, b, mode)
MulWithMode(a, b, mode) == OpWithMode("mul", a, b, mode)
DivWithMode(a, b, mode) == OpWithMode("div", a, b, mode)

Add(a, b) == AddWithMode(a, b, DefaultArithmeticMode)
Sub(a, b) == SubWithMode(a, b, DefaultArithmeticMode)
Mul(a, b) == MulWithMode(a, b, DefaultArithmeticMode)
Div(a, b) == DivWithMode(a, b, DefaultArithmeticMode)

-----------------------------------------------------------------------------
(* Package state: cache control (arithmetic and convert files) and         *)
(* Configure (float8.go).                                                  *)

\* the four tables and conversionTable after initArithmeticTables
initArithmeticTables(add, sub, mul, div, env) ==
    IF add # Nil THEN <<add, sub, mul, div>>
    ELSE <<FilledTable(env), FilledTable(env), FilledTable(env), FilledTable(env)>>

initConversionTable(conv) ==
    IF conv # Nil THEN conv ELSE BuiltConversionTable

EnableFastArithmetic ==
    LET t == initArithmeticTables(addTable, subTable, mulTable, divTable, Env)
    IN  /\ addTable' = t[1]
        /\ subTable' = t[2]
        /\ mulTable' = t[3]
        /\ divTable' = t[4]
        /\ UNCHANGED <<conversionTable, DefaultConversionMode,
                       DefaultArithmeticMode, call>>

\* DisableFastArithmetic clearing addTable alone
DisableFastArithmeticAddOnly ==
    /\ addTable' = Nil
    /\ UNCHANGED <<subTable, mulTable, divTable, conversionTable,
                   DefaultConversionMode, DefaultArithmeticMode, call>>

DisableFastArithmetic ==
    /\ addTable' = Nil
    /\ subTable' = Nil
    /\ mulTable' = Nil
    /\ divTable' = Nil
    /\ UNCHANGED <<conversionTable, DefaultConversionMode,
                   DefaultArithmeticMode, call>>

EnableFastConversion ==
    /\ conversionTable' = initConversionTable(conversionTable)
    /\ UNCHANGED <<addTable, subTable, mulTable, divTable,
                   DefaultConversionMode, DefaultArithmeticMode, call>>

DisableFastConversion ==
    /\ conversionTable' = Nil
    /\ UNCHANGED <<addTable, subTable, mulTable, divTable,
                   DefaultConversionMode, DefaultArithmeticMode, call>>

\* Config{EnableFastArithmetic, EnableFastConversion, DefaultMode, ArithmeticMode}
Configs ==
    [EnableFastArithmetic : BOOLEAN, EnableFastConversion : BOOLEAN,
     DefaultMode : ConversionModes, ArithmeticMode : ArithmeticModes]

DefaultConfig ==
    [EnableFastArithmetic |-> FALSE, EnableFastConversion |-> FALSE,
     DefaultMode |-> ModeDefault, ArithmeticMode |-> ArithmeticAuto]

\* The arithmetic tables are settled first, with the conversion table and
\* the conversion mode still as they were; then the conversion table; the
\* two modes are assigned last.
Configure(config) ==
    LET t == IF config.EnableFastArithmetic
             THEN initArithmeticTables(addTable, subTable, mulTable, divTable, Env)
             ELSE <<Nil, Nil, Nil, Nil>>
    IN  /\ addTable' = t[1]
        /\ subTable' = t[2]
        /\ mulTable' = t[3]
        /\ divTable' = t[4]
        /\ conversionTable' = IF config.EnableFastConversion
                              THEN initConversionTable(conversionTable)
                              ELSE Nil
        /\ DefaultConversionMode' = config.DefaultMode
        /\ DefaultArithmeticMode' = config.ArithmeticMode
        /\ UNCHANGED call

\* the package as loaded: no table, default modes
InitPkg ==
    /\ addTable = Nil
    /\ subTable = Nil
    /\ mulTable = Nil
    /\ divTable = Nil
    /\ conversionTable = Nil
    /\ DefaultConversionMode = ModeDefault
    /\ DefaultArithmeticMode = ArithmeticAuto

-----------------------------------------------------------------------------
(* The caller.  call is the call in progress (pc = "call") or the last one *)
(* returned (pc = "return"): operator, arguments, mode and results.        *)

Call(pc, op, a, b, mode, ret, err) ==
    [pc |-> pc, op |-> op, a |-> a, b |-> b, mode |-> mode, ret |-> ret,
     err |-> err]

Idle == Call("idle", "", 0, 0, 0, 0, NoError)

-----------------------------------------------------------------------------
(* Spec: the package state under any sequence of cache-control and         *)
(* Configure calls, with arithmetic calls on a sample of operands between. *)

\* operands of the arithmetic calls in Spec: the first MaxProbes of ProbeList
MaxProbes == 2
ProbeList ==
    <<MaxValue, NaN, PositiveInfinity, PositiveZero, 56, NegativeZero,
      NegativeInfinity, MinValue>>
Probes == {ProbeList[i] : i \in 1..MaxProbes}

Init ==
    /\ InitPkg
    /\ call = Idle

CallWithMode(op) ==
    \E a \in Probes, b \in Probes, mode \in ArithmeticModes :
        /\ call' = Call("return", op, a, b, mode, OpWithMode(op, a, b, mode),
                        NoError)
        /\ UNCHANGED pkg

CallAddWithMode == CallWithMode("add")
CallSubWithMode == CallWithMode("sub")
CallMulWithMode == CallWithMode("mul")
CallDivWithMode == CallWithMode("div")

ConfigureAny == \E config \in Configs : Configure(config)

Next ==
    \/ ConfigureAny
    \/ EnableFastArithmetic
    \/ DisableFastArithmetic
    \/ EnableFastConversion
    \/ DisableFastConversion
    \/ CallAddWithMode
    \/ CallSubWithMode
    \/ CallMulWithMode
    \/ CallDivWithMode

Spec == Init /\ [][Next]_vars

-----------------------------------------------------------------------------
(* SpecArith: one call of Add, Sub, Mul or Div on each of the 65536 pairs  *)
(* of operands, in the package as loaded.                                  *)

InitArith ==
    /\ InitPkg
    /\ \E a \in Float8, b \in Float8 :
         call = Call("call", "", a, b, DefaultArithmeticMode, 0, NoError)

CallOp(op) ==
    /\ call.pc = "call"
    /\ call' = [call EXCEPT !.pc = "return", !.op = op,
                  !.ret = OpWithMode(op, call.a, call.b, call.mode)]
    /\ UNCHANGED pkg

CallAdd == CallOp("add")
CallSub == CallOp("sub")
CallMul == CallOp("mul")
CallDiv == CallOp("div")

NextArith == CallAdd \/ CallSub \/ CallMul \/ CallDiv

SpecArith == InitArith /\ [][NextArith]_vars

-----------------------------------------------------------------------------
(* SpecConvert: one call of ToFloat8WithMode on each float32 of a sample   *)
(* that takes every sign, every exponent, every value of the four leading  *)
(* mantissa bits (the bits the conversion keeps and the bit it rounds on)  *)
(* and the least and greatest values of the nineteen bits below.           *)

MaxLow == 1
LowBits == MantBits - MantissaLen - 1
LowSamples == (0..MaxLow) \cup ((2 ^ LowBits - 1 - MaxLow)..(2 ^ LowBits - 1))
MantSamples == {hi * 2 ^ LowBits + lo : hi \in 0..15, lo \in LowSamples}
F32Inputs == {F32(s, e, m) : s \in 0..1, e \in 0..255, m \in MantSamples}

InitConvert ==
    /\ InitPkg
    /\ \E f32 \in F32Inputs, mode \in ConversionModes :
         call = Call("call", "ToFloat8WithMode", f32, 0, mode, 0, NoError)

CallToFloat8WithMode ==
    /\ call.pc = "call"
    /\ call.op = "ToFloat8WithMode"
    /\ LET r == ToFloat8WithMode(call.a, call.mode)
       IN  call' = [call EXCEPT !.pc = "return", !.ret = r.val, !.err = r.err]
    /\ UNCHANGED pkg

NextConvert == CallToFloat8WithMode

SpecConvert == InitConvert /\ [][NextConvert]_vars

-----------------------------------------------------------------------------
(* SpecRoundTrip: f8.ToFloat32() and then ToFloat8WithMode of the result,  *)
(* for each of the 256 patterns, with the conversion table enabled or      *)
(* disabled at any moment.  call.a is the pattern, call.b the float32.     *)

InitRoundTrip ==
    /\ InitPkg
    /\ \E f8 \in Float8 :
         call = Call("call", "ToFloat32", f8, 0, ModeDefault, 0, NoError)

CallToFloat32 ==
    /\ call.pc = "call"
    /\ call.op = "ToFloat32"
    /\ call' = [call EXCEPT !.op = "ToFloat8WithMode",
                  !.b = ToFloat32(Env, call.a)]
    /\ UNCHANGED pkg

CallEncodeBack ==
    /\ call.pc = "call"
    /\ call.op = "ToFloat8WithMode"
    /\ LET r == ToFloat8WithMode(call.b, call.mode)
       IN  call' = [call EXCEPT !.pc = "return", !.ret = r.val, !.err = r.err]
    /\ UNCHANGED pkg

NextRoundTrip ==
    \/ CallToFloat32
    \/ CallEncodeBack
    \/ EnableFastConversion
    \/ DisableFastConversion

SpecRoundTrip == InitRoundTrip /\ [][NextRoundTrip]_vars

-----------------------------------------------------------------------------
(* SpecCompare: one call of Equal, Less, Min or Max on each of the 65536   *)
(* pairs of operands, with the conversion table enabled or disabled at any *)
(* moment.  Equal and Less return a boolean in call.ret.                   *)

InitCompare ==
    /\ InitPkg
    /\ \E a \in Float8, b \in Float8 :
         call = Call("call", "", a, b, 0, 0, NoError)

Return(op, ret) ==
    /\ call.pc = "call"
    /\ call' = [call EXCEPT !.pc = "return", !.op = op, !.ret = ret]
    /\ UNCHANGED pkg

CallEqual == Return("Equal", Equal(call.a, call.b))
CallLess == Return("Less", Less(Env, call.a, call.b))
CallMin == Return("Min", Min(Env, call.a, call.b))
CallMax == Return("Max", Max(Env, call.a, call.b))

NextCompare ==
    \/ CallEqual
    \/ CallLess
    \/ CallMin
    \/ CallMax
    \/ EnableFastConversion
    \/ DisableFastConversion

SpecCompare == InitCompare /\ [][NextCompare]_vars

-----------------------------------------------------------------------------
(* SpecClassify: one call of IsZero, IsInf, IsFinite or IsNaN on each of   *)
(* the 256 patterns.  call.a is the pattern, call.ret the boolean.         *)

InitClassify ==
    /\ InitPkg
    /\ \E f \in Float8 : call = Call("call", "", f, 0, 0, 0, NoError)

CallIsZero == Return("IsZero", IsZero(call.a))
CallIsInf == Return("IsInf", IsInf(call.a))
CallIsFinite == Return("IsFinite", IsFinite(call.a))
CallIsNaN == Return("IsNaN", IsNaN(call.a))

NextClassify ==
    \/ CallIsZero
    \/ CallIsInf
    \/ CallIsFinite
    \/ CallIsNaN

SpecClassify == InitClassify /\ [][NextClassify]_vars

-----------------------------------------------------------------------------
(* SpecConcurrent: one goroutine calls EnableFastArithmetic and            *)
(* DisableFastArithmetic in turn while another calls AddWithMode,          *)
(* SubWithMode, MulWithMode and DivWithMode; nothing orders the accesses   *)
(* of the two to the table variables.  The steps of initArithmeticTables   *)
(* are its four make assignments and the iterations of its outer loop,     *)
(* each of which stores 256 entries in every table; a table under          *)
(* construction carries rows, the number of iterations done.  The steps of *)
(* DisableFastArithmetic are its four assignments.  A WithMode call tests  *)
(* the table variable and then indexes it: the index expression may load   *)
(* the variable again or use the slice loaded by the test, and a load of   *)
(* an entry that races with the fill loop may return the zero make left    *)
(* there or the value stored.                                              *)

TableRows == 256

MadeTable(env, rows) == [len |-> TableLen, env |-> env, rows |-> rows]

UnderConstruction(table) == table # Nil /\ "rows" \in DOMAIN table

Building == UnderConstruction(addTable)

Clearing == addTable = Nil /\ \E op \in Ops : TableOf(op) # Nil

\* the values a load of table[idx] can return
EntryValues(table, op, idx) ==
    IF UnderConstruction(table) THEN
        IF idx \div 256 < table.rows
        THEN {0, Algorithmic(op, table.env, idx \div 256, idx % 256)}
        ELSE {0}
    ELSE {TableEntry(table, op, idx)}

InitConcurrent ==
    /\ InitPkg
    /\ call = Idle

\* addTable = make(...), then subTable, mulTable, divTable
MakeTables ==
    /\ ~Clearing
    /\ \/ /\ addTable = Nil
          /\ addTable' = MadeTable(Env, 0)
          /\ UNCHANGED <<subTable, mulTable, divTable>>
       \/ /\ Building /\ subTable = Nil
          /\ subTable' = MadeTable(Env, 0)
          /\ UNCHANGED <<addTable, mulTable, divTable>>
       \/ /\ Building /\ subTable # Nil /\ mulTable = Nil
          /\ mulTable' = MadeTable(Env, 0)
          /\ UNCHANGED <<addTable, subTable, divTable>>
       \/ /\ Building /\ mulTable # Nil /\ divTable = Nil
          /\ divTable' = MadeTable(Env, 0)
          /\ UNCHANGED <<addTable, subTable, mulTable>>
    /\ UNCHANGED <<conversionTable, DefaultConversionMode,
                   DefaultArithmeticMode, call>>

\* one iteration of the loop over a: entries a<<8|0 .. a<<8|255 of each table
FillRow ==
    /\ Building
    /\ divTable # Nil
    /\ LET t == IF addTable.rows + 1 = TableRows THEN FilledTable(addTable.env)
                ELSE MadeTable(addTable.env, addTable.rows + 1)
       IN  /\ addTable' = t
           /\ subTable' = t
           /\ mulTable' = t
           /\ divTable' = t
    /\ UNCHANGED <<conversionTable, DefaultConversionMode,
                   DefaultArithmeticMode, call>>

\* addTable = nil, then subTable, mulTable, divTable
ClearTables ==
    /\ ~Building
    /\ \/ /\ addTable # Nil
          /\ addTable' = Nil
          /\ UNCHANGED <<subTable, mulTable, divTable>>
       \/ /\ addTable = Nil /\ subTable # Nil
          /\ subTable' = Nil
          /\ UNCHANGED <<addTable, mulTable, divTable>>
       \/ /\ addTable = Nil /\ subTable = Nil /\ mulTable # Nil
          /\ mulTable' = Nil
          /\ UNCHANGED <<addTable, subTable, divTable>>
       \/ /\ addTable = Nil /\ mulTable = Nil /\ divTable # Nil
          /\ divTable' = Nil
          /\ UNCHANGED <<addTable, subTable, mulTable>>
    /\ UNCHANGED <<conversionTable, DefaultConversionMode,
                   DefaultArithmeticMode, call>>

\* the test (mode == Auto || mode == Lookup) && table != nil; when it fails
\* the call returns the algorithmic result
TestTable ==
    /\ call.pc \in {"idle", "return"}
    /\ \E op \in Ops, a \in Probes, b \in Probes, mode \in ArithmeticModes :
         IF (mode = ArithmeticAuto \/ mode = ArithmeticLookup) /\ TableOf(op) # Nil
         THEN call' = Call("index", op, a, b, mode, 0, NoError)
         ELSE call' = Call("return", op, a, b, mode,
                           Algorithmic(op, Env, a, b), NoError)
    /\ UNCHANGED pkg

\* return table[uint16(a)<<8|uint16(b)]: indexing a nil slice panics
IndexTable ==
    /\ call.pc = "index"
    /\ LET table == TableOf(call.op)
           idx == Index(call.a, call.b)
       IN  IF table = Nil
           THEN \/ call' = [call EXCEPT !.pc = "panic"]
                \/ call' = [call EXCEPT !.pc = "return",
                              !.ret = TableEntry(FilledTable(Env), call.op, idx)]
           ELSE \E v \in EntryValues(table, call.op, idx) :
                    call' = [call EXCEPT !.pc = "return", !.ret = v]
    /\ UNCHANGED pkg

NextConcurrent ==
    \/ MakeTables
    \/ FillRow
    \/ ClearTables
    \/ TestTable
    \/ IndexTable

SpecConcurrent == InitConcurrent /\ [][NextConcurrent]_vars

-----------------------------------------------------------------------------
(* SpecMonotone: ToFloat8 of two float32 values and Less of the results,   *)
(* in the package as loaded.  The values take both signs, every exponent   *)
(* from one below the least to one above the greatest that                 *)
(* ToFloat8WithMode takes as in range, and four mantissas.  call.a and     *)
(* call.b are the float32 values, call.ret the two patterns and the        *)
(* answer of Less(ToFloat8(b), ToFloat8(a)).                               *)

MonotoneExps ==
    (Float32Bias - ExponentBias + ExponentMin - 1)
        .. (Float32Bias - ExponentBias + ExponentMax + 1)

MonotoneInputs ==
    {F32(s, e, hi * 2 ^ LowBits) : s \in 0..1, e \in MonotoneExps,
                                   hi \in {0, 5, 10, 15}}

InitMonotone ==
    /\ InitPkg
    /\ \E f \in MonotoneInputs, g \in MonotoneInputs :
         call = Call("call", "ToFloat8", f, g, ModeDefault, 0, NoError)

CallToFloat8Both ==
    /\ call.pc = "call"
    /\ LET f8 == ToFloat8(Env, call.a)
           g8 == ToFloat8(Env, call.b)
       IN  call' = [call EXCEPT !.pc = "return",
                     !.ret = [f |-> f8, g |-> g8, less |-> Less(Env, g8, f8)]]
    /\ UNCHANGED pkg

NextMonotone == CallToFloat8Both

SpecMonotone == InitMonotone /\ [][NextMonotone]_vars

-----------------------------------------------------------------------------
(* Properties.                                                             *)

\* neither an infinity nor a NaN
NotInfNaN(f) == ~IsInf(f) /\ ~IsNaN(f)

\* a float32 that is finite and not zero
F32FiniteNonzero(x) == x.exp # 255 /\ ~F32IsZero(x)

\* the exponent of a float32 rebiased to bias 7
Rebiased(x) == x.exp - Float32Bias + ExponentBias

Returned(op) == call.pc = "return" /\ call.op = op

(* C1: round trip.  For every pattern v that is not a NaN,                 *)
(* ToFloat8WithMode(v.ToFloat32(), ModeDefault) returns v and a nil error; *)
(* for the two NaN patterns it returns a NaN pattern.  The conversion      *)
(* table may be enabled or disabled at any moment.                         *)
C1_RoundTrip ==
    Returned("ToFloat8WithMode") =>
        IF IsNaN(call.a) THEN IsNaN(call.ret)
        ELSE call.ret = call.a /\ call.err = NoError

\* the largest finite pattern has gone through the table and come back
C1_Witness ==
    /\ Returned("ToFloat8WithMode")
    /\ conversionTable # Nil
    /\ call.a = MaxValue
    /\ call.b = F32(0, 135, 6 * 2 ^ 20)
    /\ call.ret = MaxValue

(* C2: table/algorithm equivalence.  In every state, for each operator     *)
(* whose table is present and every pair (a, b), the table entry at        *)
(* a<<8|b is the result the algorithmic operator returns for (a, b) in     *)
(* that state.                                                             *)
C2_TableEquivalence ==
    \A op \in Ops :
        TableOf(op) # Nil =>
            \A a \in Float8, b \in Float8 :
                TableEntry(TableOf(op), op, Index(a, b))
                    = Algorithmic(op, Env, a, b)

(* C3: NaN dominance.  For each of Add, Sub, Mul and Div, if either        *)
(* operand is a NaN pattern the result is a NaN pattern.                   *)
C3_NaNDominance ==
    (call.pc = "return" /\ (IsNaN(call.a) \/ IsNaN(call.b))) => IsNaN(call.ret)

(* C4: default mode never fails.  ToFloat8WithMode returns a non-nil error *)
(* only when the mode is ModeStrict; with ModeDefault the error is nil.    *)
C4_DefaultNeverFails ==
    Returned("ToFloat8WithMode") =>
        /\ call.err # NoError => call.mode = ModeStrict
        /\ call.mode = ModeDefault => call.err = NoError

\* an input too large for the format, converted in default mode
C4_Witness ==
    /\ Returned("ToFloat8WithMode")
    /\ call.mode = ModeDefault
    /\ F32FiniteNonzero(call.a)
    /\ Rebiased(call.a) > ExponentMax
    /\ call.err = NoError

(* C5: out-of-range exponents.  For a finite nonzero float32 whose         *)
(* rebiased exponent exceeds ExponentMax, ModeDefault returns the infinity *)
(* of the input's sign and ModeStrict returns 0 with the overflow error;   *)
(* below ExponentMin (all float32 subnormals included), ModeDefault        *)
(* returns the zero of the input's sign and ModeStrict returns 0 with the  *)
(* underflow error.                                                        *)
C5_OutOfRange ==
    (Returned("ToFloat8WithMode") /\ F32FiniteNonzero(call.a)) =>
        /\ (Rebiased(call.a) > ExponentMax /\ call.mode = ModeDefault) =>
               /\ call.err = NoError
               /\ call.ret = IF call.a.sign = 1 THEN NegativeInfinity
                             ELSE PositiveInfinity
        /\ (Rebiased(call.a) > ExponentMax /\ call.mode = ModeStrict) =>
               /\ call.err = ErrOverflowMsg
               /\ call.ret = 0
        /\ (Rebiased(call.a) < ExponentMin /\ call.mode = ModeDefault) =>
               /\ call.err = NoError
               /\ call.ret = IF call.a.sign = 1 THEN NegativeZero
                             ELSE PositiveZero
        /\ (Rebiased(call.a) < ExponentMin /\ call.mode = ModeStrict) =>
               /\ call.err = ErrUnderflowMsg
               /\ call.ret = 0

\* a negative float32 subnormal flushed to -0 in default mode
C5_Witness ==
    /\ Returned("ToFloat8WithMode")
    /\ call.mode = ModeDefault
    /\ call.a.sign = 1
    /\ call.a.exp = 0
    /\ call.a.mant # 0
    /\ call.ret = NegativeZero

(* C6: strict mode reports an error instead of saturating, flushing or     *)
(* NaN-mapping.  For a finite nonzero float32, ToFloat8WithMode with       *)
(* ModeStrict returns a non-nil error or a pattern that is neither a zero, *)
(* nor an infinity, nor a NaN.                                             *)
C6_StrictReports ==
    (Returned("ToFloat8WithMode") /\ call.mode = ModeStrict
        /\ F32FiniteNonzero(call.a)) =>
        \/ call.err # NoError
        \/ ~IsZero(call.ret) /\ ~IsInf(call.ret) /\ ~IsNaN(call.ret)

(* C7: a float32 that is not a NaN never encodes to a NaN.  In every mode, *)
(* when ToFloat8WithMode returns a nil error for such an input, the        *)
(* pattern returned is not a NaN pattern.                                  *)
C7_NoNaNFromNumber ==
    (Returned("ToFloat8WithMode") /\ ~F32IsNaN(call.a) /\ call.err = NoError)
        => ~IsNaN(call.ret)

(* C8: addition commutes on finite values.  For a and b neither infinite   *)
(* nor NaN (the zeros included), Add(a, b) and Add(b, a) are the same      *)
(* pattern.                                                                *)
C8_AddCommutes ==
    (Returned("add") /\ NotInfNaN(call.a) /\ NotInfNaN(call.b)) =>
        call.ret = AddWithMode(call.b, call.a, call.mode)

(* C9: multiplication commutes on finite values.  For a and b neither      *)
(* infinite nor NaN (the zeros included), Mul(a, b) and Mul(b, a) are the  *)
(* same pattern.                                                           *)
C9_MulCommutes ==
    (Returned("mul") /\ NotInfNaN(call.a) /\ NotInfNaN(call.b)) =>
        call.ret = MulWithMode(call.b, call.a, call.mode)

\* 2.0 * 3.0 = 6.0
C9_Witness ==
    /\ Returned("mul")
    /\ call.a = 64
    /\ call.b = 68
    /\ call.ret = 76

(* C10 as claimed: zero identity.  For every x neither infinite nor NaN    *)
(* (+0 and -0 included), Add(x, PositiveZero) returns the pattern x.       *)
C10_ZeroIdentity ==
    (Returned("add") /\ NotInfNaN(call.a) /\ call.b = PositiveZero) =>
        call.ret = call.a

(* C10 as amended: for every x neither infinite nor NaN and other than     *)
(* NegativeZero, Add(x, PositiveZero) returns the pattern x;               *)
(* Add(NegativeZero, PositiveZero) returns PositiveZero.  The call         *)
(* returns it, and so does addAlgorithmic under every conversion mode and  *)
(* conversion table, hence every entry a filled table can hold.            *)
C10_ZeroIdentityAmended ==
    (Returned("add") /\ NotInfNaN(call.a) /\ call.b = PositiveZero) =>
        LET sum == IF call.a = NegativeZero THEN PositiveZero ELSE call.a
        IN  /\ call.ret = sum
            /\ \A env \in Envs : addAlgorithmic(env, call.a, call.b) = sum

\* -1.0 + (+0) = -1.0
C10_Witness ==
    /\ Returned("add")
    /\ call.a = 184
    /\ call.b = PositiveZero
    /\ call.ret = 184

(* C11: Add with infinities.  Add(+Inf, +Inf) = +Inf and Add(-Inf, -Inf) = *)
(* -Inf; Add(+Inf, -Inf) and Add(-Inf, +Inf) are PositiveZero; and for x   *)
(* neither NaN nor infinite, Add(inf, x) and Add(x, inf) are that same     *)
(* infinity.                                                               *)
C11_AddInfinities ==
    Returned("add") =>
        /\ (IsInf(call.a) /\ call.b = call.a) => call.ret = call.a
        /\ (IsInf(call.a) /\ IsInf(call.b) /\ call.b # call.a) =>
               call.ret = PositiveZero
        /\ (IsInf(call.a) /\ NotInfNaN(call.b)) => call.ret = call.a
        /\ (NotInfNaN(call.a) /\ IsInf(call.b)) => call.ret = call.b

\* -Inf + +Inf = +0
C11_Witness ==
    /\ Returned("add")
    /\ call.a = NegativeInfinity
    /\ call.b = PositiveInfinity
    /\ call.ret = PositiveZero

(* C12: sign of a zero+zero sum.  Add of two zero patterns is NegativeZero *)
(* when both operands are NegativeZero and PositiveZero otherwise.         *)
C12_ZeroSumSign ==
    (Returned("add") /\ IsZero(call.a) /\ IsZero(call.b)) =>
        call.ret = IF call.a = NegativeZero /\ call.b = NegativeZero
                   THEN NegativeZero ELSE PositiveZero

(* C13: subtraction is addition of the negation.  For all 65536 pairs      *)
(* (a, b), Sub(a, b) is the pattern Add(a, b.Neg()) returns.               *)
C13_SubIsAddNeg ==
    Returned("sub") => call.ret = AddWithMode(call.a, Neg(call.b), call.mode)

(* C13, amended: for all pairs (a, b) in which a and b are not both zero   *)
(* patterns, Sub(a, b) is the pattern Add(a, b.Neg()) returns.             *)
C13_SubIsAddNegAmended ==
    (Returned("sub") /\ ~(IsZero(call.a) /\ IsZero(call.b))) =>
        call.ret = AddWithMode(call.a, Neg(call.b), call.mode)

\* 0 - 1.0 = -1.0 = 0 + (-1.0)
C13_Witness ==
    /\ Returned("sub")
    /\ call.a = PositiveZero
    /\ call.b = 56
    /\ call.ret = 184
    /\ AddWithMode(call.a, Neg(call.b), call.mode) = 184

\* the sign bit of ret is the XOR of the sign bits of a and b
SignIsXor(a, b, ret) == SignBit(ret) = (SignBit(a) # SignBit(b))

(* C14: Mul special-value matrix.  For operands that are not NaN: zero     *)
(* times infinity, in either order, is NaN; zero times a value that is not *)
(* infinite is a zero; infinity times a value that is not zero is an       *)
(* infinity; the zero or infinity has the XOR of the operand sign bits.    *)
C14_MulMatrix ==
    (Returned("mul") /\ ~IsNaN(call.a) /\ ~IsNaN(call.b)) =>
        /\ ((IsZero(call.a) /\ IsInf(call.b)) \/ (IsInf(call.a) /\ IsZero(call.b)))
               => IsNaN(call.ret)
        /\ ((IsZero(call.a) \/ IsZero(call.b)) /\ ~IsInf(call.a) /\ ~IsInf(call.b))
               => IsZero(call.ret) /\ SignIsXor(call.a, call.b, call.ret)
        /\ ((IsInf(call.a) \/ IsInf(call.b)) /\ ~IsZero(call.a) /\ ~IsZero(call.b))
               => IsInf(call.ret) /\ SignIsXor(call.a, call.b, call.ret)

\* +0 * -Inf is NaN
C14_Witness ==
    /\ Returned("mul")
    /\ call.a = PositiveZero
    /\ call.b = NegativeInfinity
    /\ IsNaN(call.ret)

(* C15: Div special-value matrix.  For operands that are not NaN: 0/0 and  *)
(* inf/inf are NaN; nonzero/zero is an infinity; zero/nonzero is a zero;   *)
(* non-infinite/infinity is a zero; infinity/non-infinite is an infinity   *)
(* (the divisor zero included); the zero or infinity has the XOR of the    *)
(* operand sign bits, so Div(1.0, NegativeZero) = 0xF8.                    *)
C15_DivMatrix ==
    (Returned("div") /\ ~IsNaN(call.a) /\ ~IsNaN(call.b)) =>
        /\ ((IsZero(call.a) /\ IsZero(call.b)) \/ (IsInf(call.a) /\ IsInf(call.b)))
               => IsNaN(call.ret)
        /\ (~IsZero(call.a) /\ IsZero(call.b))
               => IsInf(call.ret) /\ SignIsXor(call.a, call.b, call.ret)
        /\ (IsZero(call.a) /\ ~IsZero(call.b))
               => IsZero(call.ret) /\ SignIsXor(call.a, call.b, call.ret)
        /\ (~IsInf(call.a) /\ IsInf(call.b))
               => IsZero(call.ret) /\ SignIsXor(call.a, call.b, call.ret)
        /\ (IsInf(call.a) /\ ~IsInf(call.b))
               => IsInf(call.ret) /\ SignIsXor(call.a, call.b, call.ret)
        /\ (call.a = 56 /\ call.b = NegativeZero) => call.ret = NegativeInfinity

\* 1.0 / -0 = -Inf
C15_Witness ==
    /\ Returned("div")
    /\ call.a = 56
    /\ call.b = NegativeZero
    /\ call.ret = NegativeInfinity

(* C16: Equal.  Equal(a, b) is false if either operand is a NaN pattern;   *)
(* true if both are zero patterns, whatever their signs; for two           *)
(* infinities true only when they have the same sign; and in every other   *)
(* case true exactly when a and b are the same pattern.                    *)
C16_Equal ==
    Returned("Equal") =>
        call.ret = (IF IsNaN(call.a) \/ IsNaN(call.b) THEN FALSE
                    ELSE IF IsZero(call.a) /\ IsZero(call.b) THEN TRUE
                    ELSE IF IsInf(call.a) /\ IsInf(call.b)
                         THEN SignBit(call.a) = SignBit(call.b)
                    ELSE call.a = call.b)

\* +0 and -0 are equal
C16_Witness ==
    /\ Returned("Equal")
    /\ call.a = PositiveZero
    /\ call.b = NegativeZero
    /\ call.ret = TRUE

\* x < y on float32 values that are not NaN, the infinities included
F32Smaller(x, y) ==
    IF F32IsInf(x) \/ F32IsInf(y)
    THEN (x = F32NegInf /\ y # F32NegInf) \/ (y = F32PosInf /\ x # F32PosInf)
    ELSE F32Less(x, y)

(* C17: Less.  Less(a, b) is false if either operand is NaN and false if   *)
(* both are zeros; -Inf is Less than every value that is neither NaN nor   *)
(* -Inf, and every value that is neither NaN nor +Inf is Less than +Inf;   *)
(* for all remaining pairs Less(a, b) holds exactly when the decoded       *)
(* float32 of a is smaller than that of b.  The answer is the same with    *)
(* the conversion table enabled and disabled.                              *)
C17_Less ==
    Returned("Less") =>
        LET a == call.a
            b == call.b
            expected ==
                IF IsNaN(a) \/ IsNaN(b) THEN FALSE
                ELSE IF IsZero(a) /\ IsZero(b) THEN FALSE
                ELSE IF a = NegativeInfinity /\ b # NegativeInfinity THEN TRUE
                ELSE IF b = PositiveInfinity /\ a # PositiveInfinity THEN TRUE
                ELSE F32Smaller(toFloat32Algorithmic(a), toFloat32Algorithmic(b))
        IN  /\ call.ret = expected
            /\ \A env \in Envs : Less(env, a, b) = expected

\* -1.0 < +0 through the conversion table
C17_Witness ==
    /\ Returned("Less")
    /\ conversionTable # Nil
    /\ call.a = 184
    /\ call.b = PositiveZero
    /\ call.ret = TRUE

(* C18: Min and Max.  If either operand is NaN both return a NaN pattern;  *)
(* otherwise Min(a, b) is one of the operands and is not Greater than      *)
(* either, Max(a, b) is one of the operands and is not Less than either,   *)
(* and the result with the arguments swapped compares Equal.               *)
C18_MinMax ==
    /\ Returned("Min") =>
           IF IsNaN(call.a) \/ IsNaN(call.b) THEN IsNaN(call.ret)
           ELSE /\ call.ret \in {call.a, call.b}
                /\ ~Greater(Env, call.ret, call.a)
                /\ ~Greater(Env, call.ret, call.b)
                /\ Equal(call.ret, Min(Env, call.b, call.a))
    /\ Returned("Max") =>
           IF IsNaN(call.a) \/ IsNaN(call.b) THEN IsNaN(call.ret)
           ELSE /\ call.ret \in {call.a, call.b}
                /\ ~Less(Env, call.ret, call.a)
                /\ ~Less(Env, call.ret, call.b)
                /\ Equal(call.ret, Max(Env, call.b, call.a))

\* Min(2.0, 1.0) = 1.0
C18_Witness ==
    /\ Returned("Min")
    /\ call.a = 64
    /\ call.b = 56
    /\ call.ret = 56

(* C19: dispatch policy.  Every call of AddWithMode, SubWithMode,          *)
(* MulWithMode or DivWithMode returns: with ArithmeticAlgorithmic, the     *)
(* algorithmic result, tables or no tables; with ArithmeticAuto and no     *)
(* table, the algorithmic result; with ArithmeticAuto or ArithmeticLookup  *)
(* and the table present, the table entry at a<<8|b.                       *)
C19_Dispatch ==
    [][call' # call =>
        LET c == call'
            table == TableOf(c.op)
        IN  /\ c.mode = ArithmeticAlgorithmic =>
                   c.ret = Algorithmic(c.op, Env, c.a, c.b)
            /\ (c.mode = ArithmeticAuto /\ table = Nil) =>
                   c.ret = Algorithmic(c.op, Env, c.a, c.b)
            /\ (c.mode \in {ArithmeticAuto, ArithmeticLookup} /\ table # Nil) =>
                   c.ret = TableEntry(table, c.op, Index(c.a, c.b))]_vars

\* a Lookup call answered from a table built before the conversion mode
\* became ModeStrict: the entry is +Inf where addAlgorithmic now gives 0
C19_Witness ==
    /\ Returned("add")
    /\ call.mode = ArithmeticLookup
    /\ call.a = MaxValue
    /\ call.b = MaxValue
    /\ call.ret = PositiveInfinity
    /\ addTable # Nil
    /\ DefaultConversionMode = ModeStrict
    /\ addAlgorithmic(Env, call.a, call.b) = 0

(* C20: Lookup mode requires the table.  A call of AddWithMode,            *)
(* SubWithMode, MulWithMode or DivWithMode with ArithmeticLookup while the *)
(* operator's table is nil panics instead of returning a value.            *)
C20_LookupPanics ==
    [][(call' # call /\ call'.mode = ArithmeticLookup
            /\ TableOf(call'.op) = Nil) => call'.pc = "panic"]_vars

\* the four operator tables, all present with 65536 entries or all absent
ArithmeticTables == <<addTable, subTable, mulTable, divTable>>
TablesPresent == \A op \in Ops : TableOf(op) # Nil /\ TableOf(op).len = 65536
TablesAbsent == \A op \in Ops : TableOf(op) = Nil
ConversionPresent == conversionTable # Nil /\ conversionTable.len = 256

\* what a step of the cache-control calls and of Configure does to the tables
LifecycleStep ==
    /\ EnableFastArithmetic => TablesPresent'
    /\ DisableFastArithmetic => TablesAbsent'
    /\ EnableFastConversion => ConversionPresent'
    /\ DisableFastConversion => conversionTable' = Nil
    /\ \A config \in Configs :
           Configure(config) =>
               /\ config.EnableFastArithmetic <=> TablesPresent'
               /\ ~config.EnableFastArithmetic <=> TablesAbsent'
               /\ config.EnableFastConversion <=> ConversionPresent'
    /\ (EnableFastArithmetic /\ TablesPresent) => UNCHANGED ArithmeticTables
    /\ (DisableFastArithmetic /\ TablesAbsent) => UNCHANGED ArithmeticTables
    /\ (EnableFastConversion /\ ConversionPresent) => UNCHANGED conversionTable

(* C21: cache lifecycle.  After any sequence of EnableFastArithmetic,      *)
(* DisableFastArithmetic, EnableFastConversion, DisableFastConversion and  *)
(* Configure calls the four operator tables are all absent or all present  *)
(* with 65536 entries, and the conversion table is absent or has 256       *)
(* entries; after a call addressing a kind of table, that kind is present  *)
(* exactly when the call asked for it; an enable with the tables present   *)
(* and a disable with the tables absent change nothing.                    *)
C21_Lifecycle ==
    /\ []((TablesPresent \/ TablesAbsent)
            /\ (ConversionPresent \/ conversionTable = Nil))
    /\ [][LifecycleStep]_vars

\* Configure has enabled the operator tables and disabled the conversion
\* table that an earlier call had built
C21_Witness ==
    /\ TablesPresent
    /\ conversionTable = Nil
    /\ addTable.env.conv # Nil
    /\ DefaultArithmeticMode = ArithmeticLookup

(* C22: arithmetic always re-encodes in default mode.  For every operand   *)
(* pair, the pattern an algorithmic Add, Sub, Mul or Div returns is the    *)
(* one it returns when the package conversion mode is ModeDefault,         *)
(* whatever Configure has set as DefaultMode; a result too large for the   *)
(* format is a signed infinity, never the 0 of a discarded strict error.   *)
C22_DefaultReencode ==
    [][(call' # call /\ call'.mode = ArithmeticAlgorithmic) =>
        call'.ret = Algorithmic(call'.op,
                                [mode |-> ModeDefault, conv |-> conversionTable],
                                call'.a, call'.b)]_vars

(* C23: the value categories partition the 256 patterns.  For every f      *)
(* exactly one of IsNaN(f), IsInf(f), IsFinite(f) holds: IsFinite(f) is    *)
(* true exactly when f is neither an infinity nor a NaN.  MaxValue and     *)
(* MinValue are finite.                                                    *)
C23_Partition ==
    /\ Returned("IsFinite") => call.ret = (~IsInf(call.a) /\ ~IsNaN(call.a))
    /\ Returned("IsNaN") => (call.ret => ~IsInf(call.a) /\ ~IsFinite(call.a))
    /\ Returned("IsInf") => (call.ret => ~IsNaN(call.a) /\ ~IsFinite(call.a))
    /\ (Returned("IsFinite") /\ call.a \in {MaxValue, MinValue}) =>
           call.ret = TRUE

\* neither a zero, nor an infinity, nor a NaN
Ordinary(f) == ~IsZero(f) /\ ~IsInf(f) /\ ~IsNaN(f)

(* C24: sign rule for products and quotients.  For a and b neither zero,   *)
(* infinity nor NaN, when Mul(a, b) (Div(a, b)) is not NaN its sign bit is *)
(* the XOR of the sign bits of a and b.                                    *)
C24_SignRule ==
    ((Returned("mul") \/ Returned("div")) /\ Ordinary(call.a)
        /\ Ordinary(call.b) /\ ~IsNaN(call.ret)) =>
        SignIsXor(call.a, call.b, call.ret)

\* the decoded values of the positive patterns that are neither infinite
\* nor NaN
RepMags == {toFloat32Algorithmic(c) : c \in {p \in 1..126 : ~IsInf(p)}}

\* |x| <= |y| on finite nonzero float32 values
MagLe(x, y) == x.exp < y.exp \/ (x.exp = y.exp /\ x.mant <= y.mant)

\* |f| lies between the decoded values of 0x01 and MaxValue
InFormatRange(f) ==
    /\ F32FiniteNonzero(f)
    /\ MagLe(toFloat32Algorithmic(SmallestPositive), f)
    /\ MagLe(f, toFloat32Algorithmic(MaxValue))

\* the representable magnitude nearest to |f|, the larger one on a tie
NearestMag(f) ==
    LET lo == CHOOSE x \in RepMags :
                  MagLe(x, f) /\ \A y \in RepMags : MagLe(y, f) => MagLe(y, x)
        hi == CHOOSE x \in RepMags :
                  MagLe(f, x) /\ \A y \in RepMags : MagLe(f, y) => MagLe(x, y)
        scaled(x) == (MantOne + x.mant) * 2 ^ (x.exp - lo.exp)
    IN  IF scaled(f) - scaled(lo) < scaled(hi) - scaled(f) THEN lo ELSE hi

(* C25: rounding to nearest, half up.  In ModeDefault, for a finite        *)
(* float32 f whose magnitude lies between the decoded values of 0x01 and   *)
(* 0x7E, the pattern returned decodes to the representable value nearest   *)
(* to f, with the sign of f; halfway between two representable values the  *)
(* one of larger magnitude is taken.                                       *)
C25_RoundNearest ==
    (Returned("ToFloat8WithMode") /\ call.mode = ModeDefault
        /\ InFormatRange(call.a)) =>
        LET r == toFloat32Algorithmic(call.ret)
            n == NearestMag(call.a)
        IN  /\ r.sign = call.a.sign
            /\ r.exp = n.exp
            /\ r.mant = n.mant

(* C26: concurrent readers never see a partially built table.  A call in   *)
(* Auto or Lookup mode that runs while EnableFastArithmetic or             *)
(* DisableFastArithmetic is running finds no table and computes            *)
(* algorithmically, or reads a fully populated table: it returns, and its  *)
(* result is the algorithmic result for its operands.                      *)
C26_NoPartialRead ==
    /\ call.pc # "panic"
    /\ call.pc = "return" =>
           call.ret = Algorithmic(call.op, Env, call.a, call.b)

\* the float32 x is zero or the decoded value of a pattern that is neither
\* infinite nor NaN
RepValues == {toFloat32Algorithmic(c) : c \in {p \in Float8 : NotInfNaN(p)}}
Representable(x) == F32IsZero(x) \/ x \in RepValues

\* the exact sum, difference or product of the decoded operands
ExactResult(op, a, b) ==
    LET x == toFloat32Algorithmic(a)
        y == toFloat32Algorithmic(b)
    IN  CASE op = "add" -> F32Add(x, y)
          [] op = "sub" -> F32Sub(x, y)
          [] op = "mul" -> F32Mul(x, y)

(* C27: exact results are returned exactly.  For a and b neither zero,     *)
(* infinity nor NaN, if the exact sum, difference or product of their      *)
(* decoded values is zero or the decoded value of a pattern that is        *)
(* neither infinite nor NaN, then Add, Sub or Mul returns a pattern that   *)
(* decodes to that value.                                                  *)
C27_ExactResults ==
    ((Returned("add") \/ Returned("sub") \/ Returned("mul"))
        /\ Ordinary(call.a) /\ Ordinary(call.b)
        /\ Representable(ExactResult(call.op, call.a, call.b))) =>
        LET exact == ExactResult(call.op, call.a, call.b)
            r == toFloat32Algorithmic(call.ret)
        IN  IF F32IsZero(exact) THEN F32IsZero(r) ELSE r = exact

\* 2.0 + 3.0 = 5.0
C27_Witness ==
    /\ Returned("add")
    /\ call.a = 64
    /\ call.b = 68
    /\ call.ret = 74
    /\ toFloat32Algorithmic(call.ret) = F32(0, 129, 2 ^ 21)

(* C28: encoding preserves the sign.  For a float32 input that is neither  *)
(* zero nor NaN, in every mode, when ToFloat8WithMode returns a nil error  *)
(* the sign bit of the pattern returned is set exactly when the input is   *)
(* negative.                                                               *)
C28_SignPreserved ==
    (Returned("ToFloat8WithMode") /\ ~F32IsZero(call.a) /\ ~F32IsNaN(call.a)
        /\ call.err = NoError) =>
        (SignBit(call.ret) <=> call.a.sign = 1)

\* x <= y on finite nonzero float32 values
F32LeFinite(x, y) ==
    IF x.sign # y.sign THEN x.sign = 1
    ELSE IF x.sign = 0 THEN MagLe(x, y)
    ELSE MagLe(y, x)

(* C29: encoding is monotone.  For finite float32 values f <= g, in        *)
(* ModeDefault, Less(ToFloat8(g), ToFloat8(f)) is false.                   *)
C29_Monotone ==
    (Returned("ToFloat8") /\ F32LeFinite(call.a, call.b)) =>
        call.ret.less = FALSE

\* Less on every pair of patterns, without and with the conversion table
LessWithoutTable ==
    [a \in Float8 |-> [b \in Float8 |->
        Less([mode |-> ModeDefault, conv |-> Nil], a, b)]]
LessWithTable ==
    [a \in Float8 |-> [b \in Float8 |->
        Less([mode |-> ModeDefault, conv |-> BuiltConversionTable], a, b)]]
LessNow == IF conversionTable = Nil THEN LessWithoutTable ELSE LessWithTable

(* C30: Less and Equal form a strict total order on the values that are    *)
(* not NaN.  For a and b not NaN exactly one of Less(a, b), Equal(a, b),   *)
(* Less(b, a) holds; and Less(a, b) and Less(b, c) imply Less(a, c) for    *)
(* every c that is not NaN.                                                *)
C30_TotalOrder ==
    (Returned("Less") /\ ~IsNaN(call.a) /\ ~IsNaN(call.b)) =>
        LET lt == call.ret
            eq == Equal(call.a, call.b)
            gt == Less(Env, call.b, call.a)
        IN  /\ lt \/ eq \/ gt
            /\ ~(lt /\ eq) /\ ~(lt /\ gt) /\ ~(eq /\ gt)
            /\ lt => \A c \in Float8 :
                         (~IsNaN(c) /\ LessNow[call.b][c]) => LessNow[call.a][c]

\* -448 < -0, and -0 < c only for c above zero
C30_Witness ==
    /\ Returned("Less")
    /\ call.a = MinValue
    /\ call.b = NegativeZero
    /\ call.ret = TRUE

====
